---- MODULE Spec2Model ----
(***************************************************************************)
(* Semantic analysis (semantic.cc) and constant folding (optimize.cc) of   *)
(* the DIESEL compiler front end.  The driver hands each declared body to  *)
(* do_typecheck and then to do_optimize.  A body is an abstract syntax     *)
(* tree; both passes rewrite it in place.                                  *)
(*                                                                         *)
(* A tree node is a record [tag, type, val, sym, kids]:                    *)
(*   tag   the node's AST_* tag,                                           *)
(*   type  the `type' field of ast_expression (the resolved type),         *)
(*   val   the value of a literal, a rational <<num, den>>,                *)
(*   sym   the sym_p of an identifier or the callee of a call,             *)
(*   kids  the children, in the order the class declares them.             *)
(* A list (ast_stmt_list, ast_expr_list, ast_elsif_list) is the sequence   *)
(* of its elements, first element first; the NULL list pointer is the      *)
(* list with no element.  A call node holds its actuals as its kids.       *)
(* Position information is left out: it only decorates diagnostics.        *)
(***************************************************************************)
EXTENDS Integers, Sequences, FiniteSets, TLC

VARIABLES body, env, has_return, diag, pc, nbodies

vars == <<body, env, has_return, diag, pc, nbodies>>

(***************************************************************************)
(* Bounds of the model.                                                    *)
(***************************************************************************)
\* integer literals of the input programs are 0..MaxInt
MaxInt == 2
\* number of bodies the driver processes in SpecSeq
MaxBodies == 2

(***************************************************************************)
(* Type handles and symbol tags.                                           *)
(***************************************************************************)
integer_type == "integer"
real_type == "real"
void_type == "void"
\* the resolved type of an expression node no one has written yet
NoType == "unset"

SYM_VAR == "SYM_VAR"
SYM_ARRAY == "SYM_ARRAY"
SYM_CONST == "SYM_CONST"
SYM_NAMETYPE == "SYM_NAMETYPE"
SYM_FUNC == "SYM_FUNC"
SYM_PROC == "SYM_PROC"

Sym(tag, type, value, formals) ==
    [tag |-> tag, type |-> type, const_value |-> value, formals |-> formals]

\* The symbol table the bodies are checked against: variables i and r, an
\* array a of integers, constants N = 7, M = -7 and K = 2.5, a
\* user-declared named type T, functions f and g, procedures p and q.
sym_tab ==
    [s \in {"i", "r", "a", "N", "M", "K", "T", "f", "g", "p", "q"} |->
        CASE s = "i" -> Sym(SYM_VAR, integer_type, <<0, 1>>, <<>>)
          [] s = "r" -> Sym(SYM_VAR, real_type, <<0, 1>>, <<>>)
          [] s = "a" -> Sym(SYM_ARRAY, integer_type, <<0, 1>>, <<>>)
          [] s = "N" -> Sym(SYM_CONST, integer_type, <<7, 1>>, <<>>)
          [] s = "M" -> Sym(SYM_CONST, integer_type, <<-7, 1>>, <<>>)
          [] s = "K" -> Sym(SYM_CONST, real_type, <<5, 2>>, <<>>)
          [] s = "T" -> Sym(SYM_NAMETYPE, void_type, <<0, 1>>, <<>>)
          [] s = "f" -> Sym(SYM_FUNC, integer_type, <<0, 1>>, <<integer_type, real_type>>)
          [] s = "g" -> Sym(SYM_FUNC, real_type, <<0, 1>>, <<real_type>>)
          [] s = "p" -> Sym(SYM_PROC, void_type, <<0, 1>>, <<real_type, integer_type>>)
          [] s = "q" -> Sym(SYM_PROC, void_type, <<0, 1>>, <<>>)]

(***************************************************************************)
(* Node tags.                                                              *)
(***************************************************************************)
AST_ID == "AST_ID"
AST_INDEXED == "AST_INDEXED"
AST_ADD == "AST_ADD"
AST_SUB == "AST_SUB"
AST_MULT == "AST_MULT"
AST_DIVIDE == "AST_DIVIDE"
AST_OR == "AST_OR"
AST_AND == "AST_AND"
AST_IDIV == "AST_IDIV"
AST_MOD == "AST_MOD"
AST_EQUAL == "AST_EQUAL"
AST_NOTEQUAL == "AST_NOTEQUAL"
AST_LESSTHAN == "AST_LESSTHAN"
AST_GREATERTHAN == "AST_GREATERTHAN"
AST_UMINUS == "AST_UMINUS"
AST_NOT == "AST_NOT"
AST_CAST == "AST_CAST"
AST_INTEGER == "AST_INTEGER"
AST_REAL == "AST_REAL"
AST_FUNCTIONCALL == "AST_FUNCTIONCALL"
AST_PROCEDURECALL == "AST_PROCEDURECALL"
AST_ASSIGN == "AST_ASSIGN"
AST_WHILE == "AST_WHILE"
AST_IF == "AST_IF"
AST_ELSIF == "AST_ELSIF"
AST_RETURN == "AST_RETURN"
AST_STMT_LIST == "AST_STMT_LIST"
AST_ELSIF_LIST == "AST_ELSIF_LIST"

Binop1Tags == {AST_ADD, AST_SUB, AST_MULT}
Binop2Tags == {AST_OR, AST_AND, AST_IDIV, AST_MOD}
BinopTags == Binop1Tags \cup Binop2Tags \cup {AST_DIVIDE}
BinrelTags == {AST_EQUAL, AST_NOTEQUAL, AST_LESSTHAN, AST_GREATERTHAN}
ListTags == {AST_STMT_LIST, AST_ELSIF_LIST}
StmtTags == {AST_PROCEDURECALL, AST_ASSIGN, AST_WHILE, AST_IF, AST_ELSIF, AST_RETURN}
ExprTags ==
    BinopTags \cup BinrelTags \cup
    {AST_ID, AST_INDEXED, AST_UMINUS, AST_NOT, AST_CAST, AST_INTEGER, AST_REAL,
     AST_FUNCTIONCALL}

(***************************************************************************)
(* Node constructors.  The constructors live in the AST module; what each  *)
(* one leaves in the `type' field is taken from the data model: literals,  *)
(* identifiers, casts and function calls are born with their type, every   *)
(* other expression node is born with its resolved type unset.             *)
(***************************************************************************)
Node(tag, type, val, sym, kids) ==
    [tag |-> tag, type |-> type, val |-> val, sym |-> sym, kids |-> kids]

ast_integer(v) == Node(AST_INTEGER, integer_type, <<v, 1>>, "", <<>>)
ast_real(v) == Node(AST_REAL, real_type, v, "", <<>>)
ast_id(s) == Node(AST_ID, sym_tab[s].type, <<0, 1>>, s, <<>>)
ast_cast(e) == Node(AST_CAST, real_type, <<0, 1>>, "", <<e>>)
ast_functioncall(s, actuals) == Node(AST_FUNCTIONCALL, sym_tab[s].type, <<0, 1>>, s, actuals)
ast_expression(tag, kids) == Node(tag, NoType, <<0, 1>>, "", kids)
ast_indexed(s, index) == ast_expression(AST_INDEXED, <<ast_id(s), index>>)
ast_statement(tag, kids) == Node(tag, NoType, <<0, 1>>, "", kids)
ast_procedurecall(s, actuals) == Node(AST_PROCEDURECALL, NoType, <<0, 1>>, s, actuals)
ast_stmt_list(stmts) == Node(AST_STMT_LIST, NoType, <<0, 1>>, "", stmts)
ast_elsif_list(elsifs) == Node(AST_ELSIF_LIST, NoType, <<0, 1>>, "", elsifs)

Front(s) == SubSeq(s, 1, Len(s) - 1)
Last(s) == s[Len(s)]

(***************************************************************************)
(* Diagnostics: one tag per type_error call site of semantic.cc.           *)
(***************************************************************************)
E_MUST_RETURN == "A function must return a value."
E_INDEX == "Index of an array must be an Integer"
E_RIGHT == "Rifht part should be an integer"
E_LEFT == "Left part should be an integer"
E_ASSIGN == "Variable of type integer can't be assigned a real value."
E_WHILE == "while predicate must be of integer type."
E_IF == "Your condition should be an integer."
E_RETURN_NOVALUE == "Must return a value from a function."
E_PROC_RETURN == "Procedures may not return a value."
E_RETURN_TYPE == "Bad return type from function."
E_NOT == "NOT: Should be an integer"
E_ELSIF == "ELSIF: Should be an integer"

When(c, s) == IF c THEN s ELSE <<>>

(***************************************************************************)
(* The type checker.  type_check(node, e) is the virtual method            *)
(* ast_node::type_check run on `node' while e is the current environment   *)
(* of the symbol table.  It yields                                         *)
(*   t     the sym_index the method returns,                               *)
(*   n     the node as the method leaves it (children rewritten),          *)
(*   errs  the diagnostics it reports, in order,                           *)
(*   ret   whether it set the static flag has_return.                      *)
(***************************************************************************)
Checked(t, n, errs, ret) == [t |-> t, n |-> n, errs |-> errs, ret |-> ret]

\* check_binop1 with the cast of the right operand forgotten
check_binop1_left_only(l, r) ==
    IF l.t # r.t
    THEN [t |-> real_type,
          left |-> IF l.t # real_type THEN ast_cast(l.n) ELSE l.n,
          right |-> r.n]
    ELSE [t |-> l.t, left |-> l.n, right |-> r.n]

\* lines 201-208 of check_binop1, given the checked operands l and r
check_binop1(l, r) ==
    IF l.t # r.t
    THEN [t |-> real_type,
          left |-> IF l.t # real_type THEN ast_cast(l.n) ELSE l.n,
          right |-> IF r.t # real_type THEN ast_cast(r.n) ELSE r.n]
    ELSE [t |-> l.t, left |-> l.n, right |-> r.n]

\* ast_divide::type_check testing "!= real_type" where the code tests
\* "== integer_type"
ast_divide_cast_non_real(l, r) ==
    [t |-> real_type,
     left |-> IF l.t # real_type
              THEN [ast_cast(l.n) EXCEPT !.type = real_type] ELSE l.n,
     right |-> IF r.t # real_type
               THEN [ast_cast(r.n) EXCEPT !.type = real_type] ELSE r.n]

\* lines 234-245 of ast_divide::type_check, given the checked operands
ast_divide_type_check(l, r) ==
    [t |-> real_type,
     left |-> IF l.t = integer_type
              THEN [ast_cast(l.n) EXCEPT !.type = real_type] ELSE l.n,
     right |-> IF r.t = integer_type
               THEN [ast_cast(r.n) EXCEPT !.type = real_type] ELSE r.n]

\* lines 260-265 of check_binop2, given the checked operands
check_binop2(l, r) ==
    [t |-> integer_type,
     errs |-> When(r.t # integer_type, <<E_RIGHT>>) \o When(l.t # integer_type, <<E_LEFT>>)]

\* lines 296-306 of check_binrel, given the checked operands
check_binrel(l, r) ==
    IF l.t # r.t
    THEN [t |-> integer_type,
          left |-> IF l.t # real_type
                   THEN [ast_cast(l.n) EXCEPT !.type = real_type] ELSE l.n,
          right |-> IF r.t # real_type
                    THEN [ast_cast(r.n) EXCEPT !.type = real_type] ELSE r.n]
    ELSE [t |-> integer_type, left |-> l.n, right |-> r.n]

\* ast_assign::type_check with the two tests exchanged
ast_assign_swapped(l, r) ==
    [t |-> l.t,
     errs |-> When(l.t = real_type /\ r.t = integer_type, <<E_ASSIGN>>),
     rhs |-> IF l.t = integer_type /\ r.t = real_type
             THEN [ast_cast(r.n) EXCEPT !.type = real_type] ELSE r.n]

\* lines 345-354 of ast_assign::type_check, given the checked sides
ast_assign_type_check(l, r) ==
    [t |-> l.t,
     errs |-> When(l.t = integer_type /\ r.t = real_type, <<E_ASSIGN>>),
     rhs |-> IF l.t = real_type /\ r.t = integer_type
             THEN [ast_cast(r.n) EXCEPT !.type = real_type] ELSE r.n]

\* lines 446-450 of ast_not::type_check, given the checked operand
ast_not_type_check(e) ==
    IF e.t # integer_type
    THEN [t |-> void_type, errs |-> <<E_NOT>>]
    ELSE [t |-> integer_type, errs |-> <<>>]

\* lines 400-429 of ast_return::type_check: the diagnostics of a return
\* whose value (if any) resolved to value_type, inside environment e
ast_return_errs(e, has_value, value_type) ==
    IF ~has_value
    THEN When(sym_tab[e].tag # SYM_PROC, <<E_RETURN_NOVALUE>>)
    ELSE IF sym_tab[e].tag # SYM_FUNC
         THEN <<E_PROC_RETURN>>
         ELSE When(sym_tab[e].type # value_type, <<E_RETURN_TYPE>>)

RECURSIVE chk_param_cast_any(_, _)
\* chk_param without the test that the formal is real
chk_param_cast_any(formals, actuals) ==
    IF actuals = <<>> /\ formals = <<>> THEN [ok |-> TRUE, actuals |-> actuals]
    ELSE IF actuals = <<>> /\ formals # <<>> THEN [ok |-> FALSE, actuals |-> actuals]
    ELSE IF formals = <<>> /\ actuals # <<>> THEN [ok |-> FALSE, actuals |-> actuals]
    ELSE
      LET pre == chk_param_cast_any(Front(formals), Front(actuals))
          last_expr == Last(actuals)
      IN  IF ~pre.ok
          THEN [ok |-> FALSE, actuals |-> Append(pre.actuals, last_expr)]
          ELSE IF last_expr.type # Last(formals)
               THEN [ok |-> TRUE, actuals |-> Append(pre.actuals, ast_cast(last_expr))]
               ELSE [ok |-> TRUE, actuals |-> Append(pre.actuals, last_expr)]

RECURSIVE chk_param(_, _)
\* Compare formals (their types, first formal first) with the checked
\* actuals: ok is the boolean returned, actuals the list as it is left.
chk_param(formals, actuals) ==
    IF actuals = <<>> /\ formals = <<>> THEN [ok |-> TRUE, actuals |-> actuals]
    ELSE IF actuals = <<>> /\ formals # <<>> THEN [ok |-> FALSE, actuals |-> actuals]
    ELSE IF formals = <<>> /\ actuals # <<>> THEN [ok |-> FALSE, actuals |-> actuals]
    ELSE
      LET pre == chk_param(Front(formals), Front(actuals))
          last_expr == Last(actuals)
      IN  IF ~pre.ok
          THEN [ok |-> FALSE, actuals |-> Append(pre.actuals, last_expr)]
          ELSE IF last_expr.type # Last(formals)
               THEN IF Last(formals) = real_type
                    THEN [ok |-> TRUE,
                          actuals |-> Append(pre.actuals, ast_cast(last_expr))]
                    ELSE [ok |-> FALSE, actuals |-> Append(pre.actuals, last_expr)]
               ELSE [ok |-> TRUE, actuals |-> Append(pre.actuals, last_expr)]

RECURSIVE type_check(_, _)
RECURSIVE list_type_check(_, _)

\* ast_stmt_list / ast_expr_list / ast_elsif_list ::type_check on the
\* elements: the preceding ones first, then the last one.
list_type_check(elems, e) ==
    IF elems = <<>>
    THEN [ns |-> <<>>, errs |-> <<>>, ret |-> FALSE]
    ELSE LET pre == list_type_check(Front(elems), e)
             last == type_check(Last(elems), e)
         IN  [ns |-> Append(pre.ns, last.n),
              errs |-> pre.errs \o last.errs,
              ret |-> pre.ret \/ last.ret]

\* semantic::check_parameters on a call node: the actuals are type-checked,
\* the callee's formals are fetched by symbol kind, chk_param compares them
\* and its boolean result is dropped.  The callee of every call of the
\* input programs is a function or a procedure, so fatal() is never reached.
check_parameters(node, e) ==
    LET param_list == list_type_check(node.kids, e)
        formals_param == sym_tab[node.sym].formals
        chk == chk_param(formals_param, param_list.ns)
    IN  [kids |-> chk.actuals, errs |-> param_list.errs]

type_check(node, e) ==
    CASE node.tag \in ListTags ->
           LET l == list_type_check(node.kids, e)
           IN  Checked(void_type, [node EXCEPT !.kids = l.ns], l.errs, l.ret)
      [] node.tag = AST_ID ->
           Checked(IF sym_tab[node.sym].tag # SYM_NAMETYPE THEN node.type ELSE node.sym,
                   node, <<>>, FALSE)
      [] node.tag = AST_INDEXED ->
           LET index == type_check(node.kids[2], e)
               id == type_check(node.kids[1], e)
           IN  Checked(id.t,
                       [node EXCEPT !.type = id.t, !.kids = <<id.n, index.n>>],
                       index.errs \o When(index.t # integer_type, <<E_INDEX>>) \o id.errs,
                       FALSE)
      [] node.tag \in Binop1Tags ->
           LET l == type_check(node.kids[1], e)
               r == type_check(node.kids[2], e)
               c == check_binop1(l, r)
           IN  Checked(c.t, [node EXCEPT !.type = c.t, !.kids = <<c.left, c.right>>],
                       l.errs \o r.errs, FALSE)
      [] node.tag = AST_DIVIDE ->
           LET l == type_check(node.kids[1], e)
               r == type_check(node.kids[2], e)
               c == ast_divide_type_check(l, r)
           IN  Checked(c.t, [node EXCEPT !.type = c.t, !.kids = <<c.left, c.right>>],
                       l.errs \o r.errs, FALSE)
      [] node.tag = AST_OR ->
           LET l == type_check(node.kids[1], e)
               r == type_check(node.kids[2], e)
               c == check_binop2(l, r)
           IN  Checked(c.t, [node EXCEPT !.kids = <<l.n, r.n>>],
                       l.errs \o r.errs \o c.errs, FALSE)
      [] node.tag \in {AST_AND, AST_IDIV, AST_MOD} ->
           LET l == type_check(node.kids[1], e)
               r == type_check(node.kids[2], e)
               c == check_binop2(l, r)
           IN  Checked(c.t, [node EXCEPT !.type = c.t, !.kids = <<l.n, r.n>>],
                       l.errs \o r.errs \o c.errs, FALSE)
      [] node.tag \in BinrelTags ->
           LET l == type_check(node.kids[1], e)
               r == type_check(node.kids[2], e)
               c == check_binrel(l, r)
           IN  Checked(c.t, [node EXCEPT !.type = c.t, !.kids = <<c.left, c.right>>],
                       l.errs \o r.errs, FALSE)
      [] node.tag = AST_PROCEDURECALL ->
           LET c == check_parameters(node, e)
           IN  Checked(void_type, [node EXCEPT !.kids = c.kids], c.errs, FALSE)
      [] node.tag = AST_ASSIGN ->
           LET l == type_check(node.kids[1], e)
               r == type_check(node.kids[2], e)
               c == ast_assign_type_check(l, r)
           IN  Checked(c.t, [node EXCEPT !.kids = <<l.n, c.rhs>>],
                       l.errs \o r.errs \o c.errs, FALSE)
      [] node.tag = AST_WHILE ->
           LET condition == type_check(node.kids[1], e)
               b == type_check(node.kids[2], e)
           IN  Checked(void_type, [node EXCEPT !.kids = <<condition.n, b.n>>],
                       condition.errs \o When(condition.t # integer_type, <<E_WHILE>>)
                           \o b.errs,
                       b.ret)
      [] node.tag = AST_IF ->
           LET condition == type_check(node.kids[1], e)
               b == type_check(node.kids[2], e)
               elsif_list == type_check(node.kids[3], e)
               else_body == type_check(node.kids[4], e)
           IN  Checked(void_type,
                       [node EXCEPT !.kids = <<condition.n, b.n, elsif_list.n, else_body.n>>],
                       condition.errs \o When(condition.t # integer_type, <<E_IF>>)
                           \o b.errs \o elsif_list.errs \o else_body.errs,
                       b.ret \/ elsif_list.ret \/ else_body.ret)
      [] node.tag = AST_RETURN ->
           IF node.kids = <<>>
           THEN Checked(void_type, node, ast_return_errs(e, FALSE, void_type), TRUE)
           ELSE LET value == type_check(node.kids[1], e)
                IN  Checked(void_type, [node EXCEPT !.kids = <<value.n>>],
                            value.errs \o ast_return_errs(e, TRUE, value.t), TRUE)
      [] node.tag = AST_FUNCTIONCALL ->
           LET c == check_parameters(node, e)
           IN  Checked(node.type, [node EXCEPT !.kids = c.kids], c.errs, FALSE)
      [] node.tag = AST_UMINUS ->
           LET expr == type_check(node.kids[1], e)
           IN  Checked(expr.t, [node EXCEPT !.kids = <<expr.n>>], expr.errs, FALSE)
      [] node.tag = AST_NOT ->
           LET expr == type_check(node.kids[1], e)
               c == ast_not_type_check(expr)
           IN  Checked(c.t, [node EXCEPT !.kids = <<expr.n>>], expr.errs \o c.errs, FALSE)
      [] node.tag = AST_ELSIF ->
           LET condition == type_check(node.kids[1], e)
           IN  IF condition.t # integer_type
               THEN Checked(void_type, [node EXCEPT !.kids = <<condition.n, node.kids[2]>>],
                            condition.errs \o <<E_ELSIF>>, FALSE)
               ELSE LET b == type_check(node.kids[2], e)
                    IN  Checked(void_type, [node EXCEPT !.kids = <<condition.n, b.n>>],
                                condition.errs \o b.errs, b.ret)
      [] node.tag = AST_INTEGER -> Checked(integer_type, node, <<>>, FALSE)
      [] node.tag = AST_REAL -> Checked(real_type, node, <<>>, FALSE)

(***************************************************************************)
(* Host arithmetic of the folder.  An integer value v is <<v, 1>>.  A real *)
(* value is the exact rational <<num, den>> in lowest terms with den > 0;  *)
(* den = 0 stands for the IEEE values a real division by zero yields:      *)
(* <<1, 0>> is +inf, <<-1, 0>> is -inf, <<0, 0>> is NaN.  Rounding of      *)
(* doubles and the sign of zero are not modelled.                          *)
(***************************************************************************)
Abs(x) == IF x < 0 THEN -x ELSE x
Sgn(x) == IF x < 0 THEN -1 ELSE IF x = 0 THEN 0 ELSE 1

RECURSIVE GCD(_, _)
GCD(a, b) == IF b = 0 THEN a ELSE GCD(b, a % b)

Rat(n, d) ==
    LET g == GCD(Abs(n), Abs(d))
    IN  IF n = 0 THEN <<0, 1>> ELSE <<Sgn(d) * (n \div g), Abs(d) \div g>>

IsNaN(x) == x[2] = 0 /\ x[1] = 0
IsInf(x) == x[2] = 0 /\ x[1] # 0
NaN == <<0, 0>>

real_add(x, y) ==
    IF IsNaN(x) \/ IsNaN(y) THEN NaN
    ELSE IF IsInf(x) THEN (IF IsInf(y) /\ y[1] # x[1] THEN NaN ELSE x)
    ELSE IF IsInf(y) THEN y
    ELSE Rat(x[1] * y[2] + y[1] * x[2], x[2] * y[2])

real_sub(x, y) == real_add(x, <<-y[1], y[2]>>)

real_mult(x, y) ==
    IF IsNaN(x) \/ IsNaN(y) THEN NaN
    ELSE IF IsInf(x) \/ IsInf(y)
         THEN (IF x[1] = 0 \/ y[1] = 0 THEN NaN ELSE <<Sgn(x[1]) * Sgn(y[1]), 0>>)
    ELSE Rat(x[1] * y[1], x[2] * y[2])

real_div(x, y) ==
    IF IsNaN(x) \/ IsNaN(y) THEN NaN
    ELSE IF IsInf(x) THEN (IF IsInf(y) THEN NaN
                           ELSE <<x[1] * (IF y[1] < 0 THEN -1 ELSE 1), 0>>)
    ELSE IF IsInf(y) THEN <<0, 1>>
    ELSE IF y[1] = 0 THEN (IF x[1] = 0 THEN NaN ELSE <<Sgn(x[1]), 0>>)
    ELSE Rat(x[1] * y[2], x[2] * y[1])

\* the truth value C++ gives a double or a long: nonzero (NaN included)
Truth(x) == ~(x[2] # 0 /\ x[1] = 0)
BoolVal(b) == IF b THEN 1 ELSE 0

\* long / long and long % long for a nonzero divisor: truncation toward zero
long_div(a, b) == Sgn(a) * Sgn(b) * (Abs(a) \div Abs(b))
long_mod(a, b) == a - b * long_div(a, b)

\* What an integer division by zero, undefined in C++, does on the hosts the
\* compiler is built for: x86-64 raises SIGFPE and the compiler dies,
\* AArch64 yields quotient 0 (and so remainder = dividend).
DivZeroOutcomes == {"SIGFPE", "AArch64"}

(***************************************************************************)
(* The constant folder.  Every operator yields [n, trap]: the node as the  *)
(* method leaves or returns it, and whether the compiler died on the way.  *)
(* ub is the host's outcome of an integer division by zero.                *)
(***************************************************************************)
Folded(n, trap) == [n |-> n, trap |-> trap]

is_binop(node) == node.tag \in BinopTags

\* is_const taking every identifier for a constant
is_const_any_id(expr) ==
    CASE expr.tag = AST_INTEGER -> TRUE
      [] expr.tag = AST_REAL -> TRUE
      [] expr.tag = AST_ID -> TRUE
      [] OTHER -> FALSE

is_const(expr) ==
    CASE expr.tag = AST_INTEGER -> TRUE
      [] expr.tag = AST_REAL -> TRUE
      [] expr.tag = AST_ID -> sym_tab[expr.sym].tag = SYM_CONST
      [] OTHER -> FALSE

\* the operand value read at lines 166-176 and 200-210: the constant's
\* const_value for an identifier, the literal's value otherwise
operand_value(expr) ==
    IF expr.tag = AST_ID THEN sym_tab[expr.sym].const_value ELSE expr.val

\* lines 159-231 of fold_constants: bin_op is the binary node with both
\* children already folded
fold_binop(bin_op, ub) ==
    LET left == bin_op.kids[1]
        right == bin_op.kids[2]
    IN
    IF ~(is_const(left) /\ is_const(right)) THEN Folded(bin_op, FALSE)
    ELSE IF left.type = integer_type /\ right.type = integer_type
    THEN LET left_value == operand_value(left)[1]
             right_value == operand_value(right)[1]
         IN  CASE bin_op.tag = AST_ADD ->
                    Folded(ast_integer(left_value + right_value), FALSE)
               [] bin_op.tag = AST_SUB ->
                    Folded(ast_integer(left_value - right_value), FALSE)
               [] bin_op.tag = AST_MULT ->
                    Folded(ast_integer(left_value * right_value), FALSE)
               [] bin_op.tag = AST_AND ->
                    Folded(ast_integer(BoolVal(left_value # 0 /\ right_value # 0)), FALSE)
               [] bin_op.tag = AST_OR ->
                    Folded(ast_integer(BoolVal(left_value # 0 \/ right_value # 0)), FALSE)
               [] bin_op.tag = AST_IDIV ->
                    IF right_value = 0
                    THEN (IF ub = "SIGFPE" THEN Folded(bin_op, TRUE)
                          ELSE Folded(ast_integer(0), FALSE))
                    ELSE Folded(ast_integer(long_div(left_value, right_value)), FALSE)
               [] bin_op.tag = AST_MOD ->
                    IF right_value = 0
                    THEN (IF ub = "SIGFPE" THEN Folded(bin_op, TRUE)
                          ELSE Folded(ast_integer(left_value), FALSE))
                    ELSE Folded(ast_integer(long_mod(left_value, right_value)), FALSE)
               [] OTHER -> Folded(bin_op, FALSE)
    ELSE IF left.type = real_type /\ right.type = real_type
    THEN LET left_value == operand_value(left)
             right_value == operand_value(right)
         IN  CASE bin_op.tag = AST_ADD ->
                    Folded(ast_real(real_add(left_value, right_value)), FALSE)
               [] bin_op.tag = AST_SUB ->
                    Folded(ast_real(real_sub(left_value, right_value)), FALSE)
               [] bin_op.tag = AST_MULT ->
                    Folded(ast_real(real_mult(left_value, right_value)), FALSE)
               [] bin_op.tag = AST_AND ->
                    Folded(ast_real(<<BoolVal(Truth(left_value) /\ Truth(right_value)), 1>>),
                           FALSE)
               [] bin_op.tag = AST_OR ->
                    Folded(ast_real(<<BoolVal(Truth(left_value) \/ Truth(right_value)), 1>>),
                           FALSE)
               [] bin_op.tag = AST_DIVIDE ->
                    Folded(ast_real(real_div(left_value, right_value)), FALSE)
               [] OTHER -> Folded(bin_op, FALSE)
    ELSE Folded(bin_op, FALSE)

RECURSIVE optimize(_, _)
RECURSIVE fold_constants(_, _)
RECURSIVE list_optimize(_, _)
RECURSIVE list_fold(_, _)

\* ast_stmt_list::optimize / ast_elsif_list::optimize on the elements
list_optimize(elems, ub) ==
    IF elems = <<>> THEN [ns |-> <<>>, trap |-> FALSE]
    ELSE LET pre == list_optimize(Front(elems), ub)
             last == optimize(Last(elems), ub)
         IN  [ns |-> Append(pre.ns, last.n), trap |-> pre.trap \/ last.trap]

\* ast_expr_list::optimize on the elements
list_fold(elems, ub) ==
    IF elems = <<>> THEN [ns |-> <<>>, trap |-> FALSE]
    ELSE LET pre == list_fold(Front(elems), ub)
             last == fold_constants(Last(elems), ub)
         IN  [ns |-> Append(pre.ns, last.n), trap |-> pre.trap \/ last.trap]

\* the virtual method ast_node::optimize
optimize(node, ub) ==
    CASE node.tag \in ListTags ->
           LET l == list_optimize(node.kids, ub)
           IN  Folded([node EXCEPT !.kids = l.ns], l.trap)
      [] node.tag \in {AST_ID, AST_INTEGER, AST_REAL, AST_CAST} -> Folded(node, FALSE)
      [] node.tag = AST_INDEXED ->
           LET index == fold_constants(node.kids[2], ub)
           IN  Folded([node EXCEPT !.kids = <<node.kids[1], index.n>>], index.trap)
      [] node.tag \in BinopTags \cup BinrelTags ->
           LET left == fold_constants(node.kids[1], ub)
               right == fold_constants(node.kids[2], ub)
           IN  Folded([node EXCEPT !.kids = <<left.n, right.n>>], left.trap \/ right.trap)
      [] node.tag \in {AST_PROCEDURECALL, AST_FUNCTIONCALL} ->
           LET l == list_fold(node.kids, ub)
           IN  Folded([node EXCEPT !.kids = l.ns], l.trap)
      [] node.tag = AST_ASSIGN ->
           LET rhs == fold_constants(node.kids[2], ub)
           IN  Folded([node EXCEPT !.kids = <<node.kids[1], rhs.n>>], rhs.trap)
      [] node.tag \in {AST_WHILE, AST_ELSIF} ->
           LET condition == fold_constants(node.kids[1], ub)
               b == optimize(node.kids[2], ub)
           IN  Folded([node EXCEPT !.kids = <<condition.n, b.n>>],
                      condition.trap \/ b.trap)
      [] node.tag = AST_IF ->
           LET condition == fold_constants(node.kids[1], ub)
               b == optimize(node.kids[2], ub)
               elsif_list == optimize(node.kids[3], ub)
               else_body == optimize(node.kids[4], ub)
           IN  Folded([node EXCEPT !.kids = <<condition.n, b.n, elsif_list.n, else_body.n>>],
                      condition.trap \/ b.trap \/ elsif_list.trap \/ else_body.trap)
      [] node.tag = AST_RETURN ->
           IF node.kids = <<>> THEN Folded(node, FALSE)
           ELSE LET value == fold_constants(node.kids[1], ub)
                IN  Folded([node EXCEPT !.kids = <<value.n>>], value.trap)
      [] node.tag \in {AST_UMINUS, AST_NOT} ->
           LET expr == fold_constants(node.kids[1], ub)
           IN  Folded([node EXCEPT !.kids = <<expr.n>>], expr.trap)

\* fold_constants evaluating a binary operation on the children it came
\* with, before they are folded
fold_constants_before_children(node, ub) ==
    LET self == optimize(node, ub)
    IN  IF ~is_binop(node) THEN self
        ELSE LET f == fold_binop(node, ub)
             IN  IF f.trap \/ f.n # node THEN f ELSE self

\* ast_optimizer::fold_constants: the node optimizes itself, then a binary
\* operation folds its children once more and is evaluated
fold_constants(node, ub) ==
    LET self == optimize(node, ub)
    IN  IF ~is_binop(node) THEN self
        ELSE LET left == fold_constants(self.n.kids[1], ub)
                 right == fold_constants(self.n.kids[2], ub)
                 f == fold_binop([self.n EXCEPT !.kids = <<left.n, right.n>>], ub)
             IN  Folded(f.n, self.trap \/ left.trap \/ right.trap \/ f.trap)

(***************************************************************************)
(* The input programs: the bodies the parser hands over, each with the     *)
(* function or procedure it belongs to.  No input holds a cast node: casts *)
(* are made by the type checker only.                                      *)
(***************************************************************************)
Bin(tag, l, r) == ast_expression(tag, <<l, r>>)
Un(tag, x) == ast_expression(tag, <<x>>)
Assign(lhs, rhs) == ast_statement(AST_ASSIGN, <<lhs, rhs>>)
Return(vals) == ast_statement(AST_RETURN, vals)
While(c, stmts) == ast_statement(AST_WHILE, <<c, ast_stmt_list(stmts)>>)
Elsif(c, stmts) == ast_statement(AST_ELSIF, <<c, ast_stmt_list(stmts)>>)
IfStmt(c, stmts, elsifs, elses) ==
    ast_statement(AST_IF, <<c, ast_stmt_list(stmts), ast_elsif_list(elsifs),
                            ast_stmt_list(elses)>>)

One == ast_integer(1)
OneHalf == ast_real(<<3, 2>>)

IntLits == {ast_integer(v) : v \in 0..MaxInt}
RealLits == {ast_real(<<0, 1>>), OneHalf}
Ids == {ast_id(s) : s \in {"i", "r", "N", "M", "K", "T"}}
Leaves == IntLits \cup RealLits \cup Ids
CoreLeaves == {One, OneHalf, ast_id("N"), ast_id("r")}

Expr1 ==
    {Bin(op, l, r) : op \in BinopTags \cup BinrelTags, l \in Leaves, r \in Leaves}
    \cup {Un(op, x) : op \in {AST_UMINUS, AST_NOT}, x \in Leaves}
    \cup {ast_indexed("a", x) : x \in Leaves}
Core1 ==
    {Bin(op, l, r) : op \in {AST_ADD, AST_DIVIDE, AST_IDIV, AST_OR},
                     l \in CoreLeaves, r \in CoreLeaves}
    \cup {Un(AST_NOT, OneHalf), Un(AST_UMINUS, One)}
Expr2 ==
    {Bin(op, c, l) : op \in BinopTags \cup {AST_LESSTHAN}, c \in Core1, l \in CoreLeaves}
    \cup {Bin(op, l, c) : op \in BinopTags \cup {AST_LESSTHAN}, c \in Core1, l \in CoreLeaves}
    \cup {Un(op, c) : op \in {AST_UMINUS, AST_NOT}, c \in Core1}
    \cup {ast_indexed("a", c) : c \in Core1}

Args == {One, OneHalf, ast_id("i"), ast_id("r"), Bin(AST_OR, One, One),
         Un(AST_UMINUS, ast_id("r")), Bin(AST_ADD, One, OneHalf)}
ArgLists == {<<>>} \cup {<<x>> : x \in Args} \cup {<<x, y>> : x \in Args, y \in Args}

SimpleStmts ==
    {Return(<<>>), Return(<<One>>), Return(<<OneHalf>>),
     Assign(ast_id("i"), OneHalf), Assign(ast_id("i"), Bin(AST_ADD, One, One))}
Conds == {One, OneHalf}
Blocks == {<<>>} \cup {<<s>> : s \in SimpleStmts}
SmallBlocks == {<<>>, <<Return(<<One>>)>>, <<Assign(ast_id("i"), OneHalf)>>}
Elsifs == {Elsif(c, b) : c \in Conds, b \in Blocks}
ElsifLists ==
    {<<>>} \cup {<<x>> : x \in Elsifs}
    \cup {<<Elsif(c, <<>>), Elsif(d, <<Return(<<One>>)>>)>> : c \in Conds, d \in Conds}
Whiles == {While(c, b) : c \in Conds, b \in Blocks}
Ifs == {IfStmt(c, b, el, ex) : c \in Conds, b \in SmallBlocks, el \in ElsifLists,
                               ex \in SmallBlocks}
Nested ==
    {While(c, <<IfStmt(d, <<>>, <<Elsif(x, <<Return(<<One>>)>>)>>, <<>>)>>) :
        c \in Conds, d \in Conds, x \in Conds}
    \cup {IfStmt(c, <<While(d, <<Return(<<One>>)>>)>>, <<>>, <<>>) : c \in Conds, d \in Conds}
    \cup {IfStmt(c, <<>>, <<>>, <<While(d, <<Return(<<One>>)>>)>>) : c \in Conds, d \in Conds}

ExprBodies ==
    {<<Assign(lhs, x)>> : lhs \in {ast_id("i"), ast_id("r")}, x \in Leaves \cup Expr1}
    \cup {<<Assign(ast_id("r"), x)>> : x \in Expr2}
    \cup {<<Assign(ast_indexed("a", x), One)>> : x \in Core1 \cup CoreLeaves}
    \cup {<<ast_procedurecall(s, a)>> : s \in {"p", "q"}, a \in ArgLists}
    \cup {<<Assign(ast_id("r"), ast_functioncall(s, a))>> : s \in {"f", "g"}, a \in ArgLists}
    \cup {<<While(x, <<>>)>> : x \in Core1}
ControlBodies ==
    {<<>>} \cup {<<s>> : s \in SimpleStmts \cup Whiles \cup Ifs \cup Nested}
    \cup {<<s, t>> : s \in SimpleStmts, t \in SimpleStmts}
    \cup {<<Return(<<x>>)>> : x \in Core1}

Programs ==
    {<<ast_stmt_list(b), "p">> : b \in ExprBodies}
    \cup {<<ast_stmt_list(b), e>> : b \in ControlBodies, e \in {"f", "g", "p"}}

\* the bodies of a compilation unit with several declarations
SeqPrograms ==
    {<<ast_stmt_list(b), e>> :
        b \in {<<>>, <<Return(<<One>>)>>, <<Return(<<>>)>>,
               <<Assign(ast_id("i"), OneHalf)>>,
               <<While(OneHalf, <<Return(<<One>>)>>)>>,
               <<IfStmt(One, <<>>, <<Elsif(One, <<Return(<<One>>)>>)>>, <<>>)>>,
               <<IfStmt(One, <<>>, <<Elsif(OneHalf, <<Return(<<One>>)>>)>>, <<>>)>>,
               <<IfStmt(OneHalf, <<>>, <<>>, <<Return(<<One>>)>>)>>},
        e \in {"f", "p"}}

(***************************************************************************)
(* The driver.  pc is the driver's position for the current body:          *)
(*   "parsed"     the body is built, do_typecheck is next,                 *)
(*   "checked"    do_typecheck has returned, do_optimize is next,          *)
(*   "optimized"  do_optimize has returned,                                *)
(*   "died"       the compiler was killed inside do_optimize.              *)
(* diag is the diagnostics sink; has_return is the file-static flag of     *)
(* semantic.cc; env is the symbol table's current environment.             *)
(***************************************************************************)
Init ==
    /\ \E prog \in Programs : body = prog[1] /\ env = prog[2]
    /\ has_return = FALSE
    /\ diag = <<>>
    /\ pc = "parsed"
    /\ nbodies = 1

\* the value of has_return when the walk of the body is over: it was reset
\* to false at line 18 and set by every ast_return visited
has_return_after(before, visited_return) == FALSE \/ visited_return

\* semantic::do_typecheck(env, body)
do_typecheck ==
    /\ pc = "parsed"
    /\ LET c == type_check(body, env)
           flag == has_return_after(has_return, c.ret)
       IN  /\ body' = c.n
           /\ has_return' = flag
           /\ diag' = diag \o c.errs
                        \o When(sym_tab[env].tag = SYM_FUNC /\ ~flag, <<E_MUST_RETURN>>)
    /\ pc' = "checked"
    /\ UNCHANGED <<env, nbodies>>

\* ast_optimizer::do_optimize(body) on a host whose integer division by
\* zero behaves as ub
do_optimize(ub) ==
    /\ pc = "checked"
    /\ LET o == optimize(body, ub)
       IN  IF o.trap
           THEN pc' = "died" /\ UNCHANGED body
           ELSE pc' = "optimized" /\ body' = o.n
    /\ UNCHANGED <<env, has_return, diag, nbodies>>

Next == do_typecheck \/ \E ub \in DivZeroOutcomes : do_optimize(ub)

Spec == Init /\ [][Next]_vars

\* The driver over successive bodies, in declaration order.
InitSeq ==
    /\ \E prog \in SeqPrograms : body = prog[1] /\ env = prog[2]
    /\ has_return = FALSE
    /\ diag = <<>>
    /\ pc = "parsed"
    /\ nbodies = 1

next_body ==
    /\ pc = "optimized"
    /\ nbodies < MaxBodies
    /\ \E prog \in SeqPrograms : body' = prog[1] /\ env' = prog[2]
    /\ pc' = "parsed"
    /\ nbodies' = nbodies + 1
    /\ UNCHANGED <<has_return, diag>>

NextSeq == do_typecheck \/ (\E ub \in DivZeroOutcomes : do_optimize(ub)) \/ next_body

SpecSeq == InitSeq /\ [][NextSeq]_vars

\* The driver handing a body to do_optimize a first time after the type
\* check and a second time after the first: a run is the position it starts
\* from and the position it leaves.
\*   "reoptimized"  the second do_optimize has returned.
OptimizeRuns == {<<"checked", "optimized">>, <<"optimized", "reoptimized">>}

do_optimize_run(run, ub) ==
    /\ pc = run[1]
    /\ LET o == optimize(body, ub)
       IN  IF o.trap
           THEN pc' = "died" /\ UNCHANGED body
           ELSE pc' = run[2] /\ body' = o.n
    /\ UNCHANGED <<env, has_return, diag, nbodies>>

NextTwice ==
    \/ do_typecheck
    \/ \E run \in OptimizeRuns, ub \in DivZeroOutcomes : do_optimize_run(run, ub)

SpecTwice == Init /\ [][NextTwice]_vars

(***************************************************************************)
(* Vocabulary of the properties.  A path is the sequence of child indices  *)
(* leading from the body to a node.                                        *)
(***************************************************************************)
RECURSIVE Paths(_)
Paths(n) ==
    {<<>>} \cup UNION {{<<k>> \o p : p \in Paths(n.kids[k])} : k \in 1..Len(n.kids)}

RECURSIVE At(_, _)
At(n, p) == IF p = <<>> THEN n ELSE At(n.kids[Head(p)], Tail(p))

\* The type checker puts a cast between a node and its parent; the node a
\* path of the parsed body led to is found below such casts afterwards.
Strip(n) == IF n.tag = AST_CAST THEN n.kids[1] ELSE n

RECURSIVE PostAt(_, _)
PostAt(n, p) == IF p = <<>> THEN n ELSE PostAt(Strip(n.kids[Head(p)]), Tail(p))

\* whether the type checker, started on n, calls type_check on the node at p
RECURSIVE Visited(_, _, _)
Visited(n, p, e) ==
    \/ p = <<>>
    \/ /\ ~(n.tag = AST_ELSIF /\ Head(p) = 2
             /\ type_check(n.kids[1], e).t # integer_type)
       /\ Visited(n.kids[Head(p)], Tail(p), e)

Count(seq, m) == Cardinality({k \in 1..Len(seq) : seq[k] = m})
Reported(m) == Count(diag', m) - Count(diag, m)
IsCastOf(slot, operand) ==
    slot.tag = AST_CAST /\ slot.type = real_type /\ slot.kids = <<operand>>
IsLiteral(n) == n.tag \in {AST_INTEGER, AST_REAL}
ContainsTag(n, tag) == \E p \in Paths(n) : At(n, p).tag = tag

TypecheckStep == pc = "parsed" /\ pc' = "checked"
OptimizeStep == pc = "checked" /\ pc' = "optimized"

\* the nodes of the parsed body with a tag in `tags' that do_typecheck visits
VisitedNodes(tags) ==
    {p \in Paths(body) : At(body, p).tag \in tags /\ Visited(body, p, env)}

(***************************************************************************)
(* C1.  After do_typecheck every expression node of the body carries a     *)
(* resolved type: none is left unset.  (Stated for bodies without elsif,   *)
(* whose bodies the checker may skip, see C3.)                             *)
(***************************************************************************)
C1_EveryExpressionResolved ==
    (pc = "checked" /\ ~ContainsTag(body, AST_ELSIF))
        => \A p \in Paths(body) :
              At(body, p).tag \in ExprTags => At(body, p).type # NoType

(***************************************************************************)
(* C2.  Each do_typecheck call reports "A function must return a value"    *)
(* exactly once if the environment is a function and the body holds no     *)
(* return at any depth, and not at all otherwise, whatever the earlier     *)
(* bodies were.                                                            *)
(***************************************************************************)
C2_MustReturnIffNoReturn ==
    [][TypecheckStep =>
         Reported(E_MUST_RETURN) =
             (IF sym_tab[env].tag = SYM_FUNC /\ ~ContainsTag(body, AST_RETURN)
              THEN 1 ELSE 0)]_vars

(***************************************************************************)
(* C3.  The body of every while, if and elsif (and the elsif list and else *)
(* body of an if) is type-checked whatever the condition resolved to, and  *)
(* every narrowing assignment in the body is reported.                     *)
(***************************************************************************)
NarrowingAssigns(n, e) ==
    {p \in Paths(n) :
        /\ At(n, p).tag = AST_ASSIGN
        /\ type_check(At(n, p).kids[1], e).t = integer_type
        /\ type_check(At(n, p).kids[2], e).t = real_type}

C3_TraversalNeverStops ==
    [][TypecheckStep =>
         /\ \A p \in Paths(body) :
              At(body, p).tag \in {AST_WHILE, AST_IF, AST_ELSIF} =>
                 \A k \in 2..Len(At(body, p).kids) :
                    PostAt(body', p).kids[k] = type_check(At(body, p).kids[k], env).n
         /\ Reported(E_ASSIGN) = Cardinality(NarrowingAssigns(body, env))]_vars

(***************************************************************************)
(* C4.  do_typecheck followed by do_optimize runs to completion on every   *)
(* body: the compiler never dies in a pass.                                *)
(***************************************************************************)
C4_NeverAborts == pc # "died"

(***************************************************************************)
(* C5.  A '/' node gets resolved type real; an operand is wrapped in a     *)
(* cast of type real exactly when its resolved type was integer; every     *)
(* other operand (real, a named type, void) is left as the checker left    *)
(* it.                                                                     *)
(***************************************************************************)
C5_DivideCastsIntegerOperands ==
    [][TypecheckStep =>
         \A p \in VisitedNodes({AST_DIVIDE}) :
            /\ PostAt(body', p).type = real_type
            /\ type_check(At(body, p), env).t = real_type
            /\ \A k \in 1..2 :
                 LET operand == type_check(At(body, p).kids[k], env)
                     slot == PostAt(body', p).kids[k]
                 IN  IF operand.t = integer_type
                     THEN IsCastOf(slot, operand.n)
                     ELSE slot = operand.n]_vars

\* C5 as claimed: every operand that is not real is wrapped.
C5_DivideCastsEveryNonReal ==
    [][TypecheckStep =>
         \A p \in VisitedNodes({AST_DIVIDE}) :
            /\ PostAt(body', p).type = real_type
            /\ \A k \in 1..2 :
                 LET operand == type_check(At(body, p).kids[k], env)
                     slot == PostAt(body', p).kids[k]
                 IN  IF operand.t # real_type
                     THEN IsCastOf(slot, operand.n)
                     ELSE slot = operand.n]_vars

\* a checked '/' whose right operand was an integer and is cast, and whose
\* left operand is the named type T, left as it was
C5_Witness ==
    /\ pc = "checked"
    /\ \E p \in Paths(body) :
          /\ At(body, p).tag = AST_DIVIDE
          /\ At(body, p).type = real_type
          /\ At(body, p).kids[1] = ast_id("T")
          /\ IsCastOf(At(body, p).kids[2], ast_integer(1))

(***************************************************************************)
(* C6.  A +, - or * node: if the operands' resolved types differ, each     *)
(* operand that is not real is replaced by a cast of type real wrapping it *)
(* and the node's type is real; if they are equal no cast is inserted and  *)
(* the node's type is the common type.                                     *)
(***************************************************************************)
C6_Binop1Coercion ==
    [][TypecheckStep =>
         \A p \in VisitedNodes(Binop1Tags) :
            LET l == type_check(At(body, p).kids[1], env)
                r == type_check(At(body, p).kids[2], env)
                post == PostAt(body', p)
            IN  IF l.t # r.t
                THEN /\ post.type = real_type
                     /\ type_check(At(body, p), env).t = real_type
                     /\ IF l.t # real_type THEN IsCastOf(post.kids[1], l.n)
                                           ELSE post.kids[1] = l.n
                     /\ IF r.t # real_type THEN IsCastOf(post.kids[2], r.n)
                                           ELSE post.kids[2] = r.n
                ELSE /\ post.type = l.t
                     /\ type_check(At(body, p), env).t = l.t
                     /\ post.kids = <<l.n, r.n>>]_vars

\* a checked integer + real: type real, the integer side cast, the real
\* side untouched
C6_Witness ==
    /\ pc = "checked"
    /\ \E p \in Paths(body) :
          /\ At(body, p).tag = AST_ADD
          /\ At(body, p).type = real_type
          /\ IsCastOf(At(body, p).kids[1], ast_integer(1))
          /\ At(body, p).kids[2] = ast_id("r")

(***************************************************************************)
(* C7.  Type-checking an AND, OR, DIV, MOD or NOT node returns integer for *)
(* every combination of operand types; a non-integer operand gives one     *)
(* diagnostic per offending side and never a cast.                         *)
(***************************************************************************)
C7_LogicalAlwaysInteger ==
    [][TypecheckStep =>
         \A p \in VisitedNodes(Binop2Tags \cup {AST_NOT}) :
            LET node == At(body, p)
                c == type_check(node, env)
            IN  /\ c.t = integer_type
                /\ \A k \in 1..Len(node.kids) :
                      PostAt(body', p).kids[k] = type_check(node.kids[k], env).n
                /\ Len(c.errs) =
                      Cardinality({k \in 1..Len(node.kids) :
                                      type_check(node.kids[k], env).t # integer_type})
                      + Len(type_check(At(body, p).kids[1], env).errs)
                      + (IF Len(node.kids) = 2
                         THEN Len(type_check(node.kids[2], env).errs) ELSE 0)]_vars

(***************************************************************************)
(* C8.  An assignment: with a real left side and an integer right side the *)
(* right side is replaced by a cast of type real and the assignment        *)
(* reports nothing; with an integer left side and a real right side the    *)
(* assignment reports exactly one diagnostic and leaves the right side     *)
(* unwrapped; the type returned is always the left side's type.            *)
(***************************************************************************)
C8_Assignment ==
    [][TypecheckStep =>
         /\ \A p \in VisitedNodes({AST_ASSIGN}) :
              LET l == type_check(At(body, p).kids[1], env)
                  r == type_check(At(body, p).kids[2], env)
                  c == type_check(At(body, p), env)
                  post == PostAt(body', p)
                  own == SubSeq(c.errs, Len(l.errs) + Len(r.errs) + 1, Len(c.errs))
              IN  /\ c.t = l.t
                  /\ post.kids[1] = l.n
                  /\ SubSeq(c.errs, 1, Len(l.errs) + Len(r.errs)) = l.errs \o r.errs
                  /\ (l.t = real_type /\ r.t = integer_type) =>
                        IsCastOf(post.kids[2], r.n) /\ own = <<>>
                  /\ (l.t = integer_type /\ r.t = real_type) =>
                        post.kids[2] = r.n /\ own = <<E_ASSIGN>>
                  /\ ~(l.t = real_type /\ r.t = integer_type) => post.kids[2] = r.n
                  /\ ~(l.t = integer_type /\ r.t = real_type) => own = <<>>
         /\ Reported(E_ASSIGN) =
              Cardinality({p \in VisitedNodes({AST_ASSIGN}) :
                  /\ type_check(At(body, p).kids[1], env).t = integer_type
                  /\ type_check(At(body, p).kids[2], env).t = real_type})]_vars

\* a checked r := 1: the literal is cast and nothing was reported
C8_Witness ==
    /\ pc = "checked"
    /\ diag = <<>>
    /\ \E p \in Paths(body) :
          /\ At(body, p).tag = AST_ASSIGN
          /\ At(body, p).kids[1] = ast_id("r")
          /\ IsCastOf(At(body, p).kids[2], ast_integer(1))

(***************************************************************************)
(* C9.  At a call, comparing actuals with formals reports nothing of its   *)
(* own, also on a length mismatch or an uncoercible type mismatch; an      *)
(* actual is wrapped in a cast only when it is paired with a formal of     *)
(* type real and the resolved type the actual carries is not real.         *)
(***************************************************************************)
RECURSIVE ErrsOf(_, _)
ErrsOf(elems, e) ==
    IF elems = <<>> THEN <<>>
    ELSE ErrsOf(Front(elems), e) \o type_check(Last(elems), e).errs

RECURSIVE Folds(_, _)
Folds(n, p) ==
    \/ p = <<>>
    \/ /\ n.tag # AST_CAST
       /\ ~(n.tag = AST_ASSIGN /\ Head(p) = 1)
       /\ Folds(n.kids[Head(p)], Tail(p))

FoldedBinops == {p \in Paths(body) : is_binop(At(body, p)) /\ Folds(body, p)}

Outermost(p) ==
    \A k \in 0..(Len(p) - 1) : ~is_binop(At(body, SubSeq(p, 1, k)))

ConstOperand(n) == IsLiteral(n) \/ (n.tag = AST_ID /\ sym_tab[n.sym].tag = SYM_CONST)

SameClass(l, r) ==
    \/ l.type = integer_type /\ r.type = integer_type
    \/ l.type = real_type /\ r.type = real_type

Evaluated(tag, l, r) ==
    \/ /\ l.type = integer_type /\ r.type = integer_type
       /\ tag \in {AST_ADD, AST_SUB, AST_MULT, AST_AND, AST_OR, AST_IDIV, AST_MOD}
    \/ /\ l.type = real_type /\ r.type = real_type
       /\ tag \in {AST_ADD, AST_SUB, AST_MULT, AST_AND, AST_OR, AST_DIVIDE}

DeclaredValue(n) == IF n.tag = AST_ID THEN sym_tab[n.sym].const_value[1] ELSE n.val[1]

IntegerResult(tag, l, r) ==
    CASE tag = AST_ADD -> DeclaredValue(l) + DeclaredValue(r)
      [] tag = AST_SUB -> DeclaredValue(l) - DeclaredValue(r)
      [] tag = AST_MULT -> DeclaredValue(l) * DeclaredValue(r)

ResolvedType(n) == IF n.tag = AST_OR THEN integer_type ELSE n.type

C11_FoldingKeepsResolvedType ==
    [][OptimizeStep =>
         /\ \A p \in FoldedBinops : \A ub \in DivZeroOutcomes :
               LET b == At(body, p)
                   f == fold_constants(b, ub)
               IN  ~f.trap =>
                     IF IsLiteral(f.n) THEN f.n.type = ResolvedType(b)
                     ELSE f.n.type = b.type
         /\ \A p \in Paths(body') :
               IF is_binop(At(body, p)) /\ IsLiteral(At(body', p))
               THEN At(body', p).type = ResolvedType(At(body, p))
               ELSE At(body', p).type = At(body, p).type]_vars

(***************************************************************************)
(* C12.  Folding is idempotent: do_optimize run a second time, on the body *)
(* the first run left, returns, leaves the tree as it was (no node         *)
(* replaced, no literal changed) and reports nothing.                      *)
(***************************************************************************)
ReoptimizeStep == pc = "optimized" /\ pc' # "optimized"

C12_FoldingIdempotent ==
    [][ReoptimizeStep =>
         /\ pc' = "reoptimized"
         /\ body' = body
         /\ diag' = diag]_vars

\* a body folded twice that holds the literal 4.5, which no input program
\* holds: the first run folded (1.5 + 1.5) + 1.5 in two steps
C12_Witness ==
    /\ pc = "reoptimized"
    /\ \E p \in Paths(body) : At(body, p) = ast_real(<<9, 2>>)

(***************************************************************************)
(* C13.  After do_optimize on a body that type-checked without a           *)
(* diagnostic, no binary arithmetic or logical node with two constant      *)
(* operands of one type class is left in an expression position that is    *)
(* not under a cast: conditions, right-hand sides, index expressions (of   *)
(* an assignment target too), call arguments, return values, operands of   *)
(* unary operators and of relations.                                       *)
(***************************************************************************)
\* whether a cast lies on the way from n to the node at p
RECURSIVE UnderCast(_, _)
UnderCast(n, p) ==
    /\ p # <<>>
    /\ (n.tag = AST_CAST \/ UnderCast(n.kids[Head(p)], Tail(p)))

\* a binary operation that is still to be folded
Foldable(n) ==
    /\ is_binop(n)
    /\ ConstOperand(n.kids[1])
    /\ ConstOperand(n.kids[2])
    /\ SameClass(n.kids[1], n.kids[2])

C13_NoFoldableLeft ==
    [][(OptimizeStep /\ diag = <<>>) =>
         \A p \in Paths(body') : ~UnderCast(body', p) => ~Foldable(At(body', p))]_vars

====
